---- MODULE Spec2Model ----
(***************************************************************************)
(* ConnectionMessageDisplay (Source/Dialogs/ConnectionMessageDisplay.h):   *)
(* the hover overlay that shows the last message or a live oscilloscope    *)
(* of a patch connection.  The model covers the display state controller   *)
(* (setConnection, hideDisplay, the three MultiTimer callbacks), the       *)
(* SafePointer to the observed connection, and the per-channel sample      *)
(* relay (updateSignalData -> sampleQueue -> updateSignalGraph ->          *)
(* lastSamples).                                                           *)
(*                                                                         *)
(* Time is discrete with one clock tick = 500 ms.  A timer whose period is *)
(* shorter than a tick (repaint at 100 ms / 16 ms, hover delay of 0 ms)    *)
(* may fire at any moment while it runs; a 500 ms timer fires exactly one  *)
(* tick after it was armed, before the clock advances again.               *)
(*                                                                         *)
(* Samples are identified by their arrival number on their channel (the    *)
(* k-th sample that getSignalData hands out for a channel has value k), so *)
(* order and loss are visible in the data; 0 stands for 0.0f.              *)
(*                                                                         *)
(* Spec is the whole overlay.  SpecDisplay is the display state controller *)
(* with no audio block arriving, SpecRelay the sample relay while the      *)
(* clock stands still; the properties of either part are checked there.    *)
(***************************************************************************)
EXTENDS Integers, Sequences, FiniteSets, TLC

\* ---- bounds -------------------------------------------------------------
\* number of Connection objects the patch offers to hover over
NumConns == 2
\* stands for the 8 channels of sampleQueue / lastSamples
NumChannels == 2
\* stands for the 512 of ReaderWriterQueue<float>(512) and lastSamples[8][512]
BufferSize == 3
\* stands for DEFDACBLKSIZE, the samples per channel in one audio block
BlockSize == 2
\* audio blocks the producer hands out per channel over a run
MaxBlocks == 3
\* the clock ticks that the age of the last hide is counted up to
MaxAge == 2
\* the tokens of the longest message a connection carries
MaxTokens == 3

\* ---- identities ---------------------------------------------------------
NULL == 0
RepaintTimer == 0
MouseHoverDelay == 1
MouseHoverExitDelay == 2

Never == -1
Indeterminate == -1

Conns == 1..NumConns
Channels == 0..(NumChannels - 1)
TimerIDs == {RepaintTimer, MouseHoverDelay, MouseHoverExitDelay}

\* activeConnection->outlet->isSignal: a fixed attribute of each connection
IsSignal(c) == c % 2 = 1

VARIABLES
    activeConnection,   \* the Connection the SafePointer was last set to, or NULL
    gone,               \* that Connection has been deleted since (the SafePointer
                        \* reads null although it was not reset)
    visible,            \* Component::isVisible
    mouseDelay,
    isSignalDisplay,
    timerPeriodMs,      \* per timer id; 0 = not running (juce::Timer)
    timerCountdown,     \* per timer id; clock ticks until the next callback
    lastNumChannels,
    sampleQueue,        \* per channel: the queued samples, oldest first
    lastSamples,        \* per channel: display array, index 0..BufferSize-1
    connectionListener, \* pd->connectionListener: "this" or "nullptr"
    produced,           \* per channel: samples handed out by getSignalData
    clearedAt,          \* per channel: produced at the last buffer clear
    drains,             \* repaint-tick drains since the last buffer clear
    hiddenAge,          \* clock ticks since hideDisplay last ran (Never: not yet)
    op,                 \* the operation that produced this state
    lastMessage,        \* what activeConnection->getMessageFormated() returns
    parentWidth,        \* getParentComponent()->getWidth(): the editor's width
    messageItemsWithFormat,
    totalStringWidth,   \* updateTextString's local, as it was when it returned
    width,              \* Component::getWidth of the overlay
    audio,              \* the audio thread inside updateSignalData: where it is
                        \* (pc) and its locals numChannels and n
    ui,                 \* the UI thread inside a loop over the queues: where it
                        \* is (pc) and the loop variables ch and i
    accessed            \* per thread: the fields of the overlay it has read or
                        \* written so far

progVars == <<activeConnection, gone, visible, mouseDelay, isSignalDisplay,
              timerPeriodMs, timerCountdown, lastNumChannels, sampleQueue,
              lastSamples, connectionListener>>
vars == <<activeConnection, gone, visible, mouseDelay, isSignalDisplay,
          timerPeriodMs, timerCountdown, lastNumChannels, sampleQueue,
          lastSamples, connectionListener, produced, clearedAt, drains,
          hiddenAge, op, lastMessage, parentWidth, messageItemsWithFormat,
          totalStringWidth, width, audio, ui, accessed>>
\* the state of the text layout
textVars == <<lastMessage, parentWidth, messageItemsWithFormat, totalStringWidth, width>>
\* the positions of the two threads
threadVars == <<audio, ui, accessed>>

\* the object's fields as one value, so that handlers compose like the code
cur == [activeConnection |-> activeConnection, gone |-> gone, visible |-> visible,
        mouseDelay |-> mouseDelay, isSignalDisplay |-> isSignalDisplay,
        timerPeriodMs |-> timerPeriodMs, timerCountdown |-> timerCountdown,
        lastNumChannels |-> lastNumChannels, sampleQueue |-> sampleQueue,
        lastSamples |-> lastSamples, connectionListener |-> connectionListener]

Commit(s) ==
    /\ activeConnection' = s.activeConnection
    /\ gone' = s.gone
    /\ visible' = s.visible
    /\ mouseDelay' = s.mouseDelay
    /\ isSignalDisplay' = s.isSignalDisplay
    /\ timerPeriodMs' = s.timerPeriodMs
    /\ timerCountdown' = s.timerCountdown
    /\ lastNumChannels' = s.lastNumChannels
    /\ sampleQueue' = s.sampleQueue
    /\ lastSamples' = s.lastSamples
    /\ connectionListener' = s.connectionListener

\* ---- library semantics --------------------------------------------------
jmax(a, b) == IF a >= b THEN a ELSE b
Min(a, b) == IF a <= b THEN a ELSE b

\* clock ticks (of 500 ms) in a period
Ticks(ms) == ms \div 500

\* SafePointer::getComponent: null once the component has been deleted
getComponent(s) == IF s.gone THEN NULL ELSE s.activeConnection

\* SafePointer::operator=: the pointer refers to (the live) component c, or to none
assign(s, c) == [s EXCEPT !.activeConnection = c, !.gone = FALSE]

\* MultiTimer::startTimer -> juce::Timer::startTimer: period = jmax(1, ms),
\* the countdown restarts from the full period
startTimer(s, id, ms) ==
    [s EXCEPT !.timerPeriodMs[id] = jmax(1, ms),
              !.timerCountdown[id] = Ticks(jmax(1, ms))]

stopTimer(s, id) ==
    [s EXCEPT !.timerPeriodMs[id] = 0, !.timerCountdown[id] = 0]

\* ReaderWriterQueue::try_enqueue: never allocates, fails when the queue is full
try_enqueue(q, x) == IF Len(q) < BufferSize THEN Append(q, x) ELSE q

\* ---- the sample relay -----------------------------------------------------
\* the block that getSignalData copies out: entry n belongs to channel
\* n / DEFDACBLKSIZE and is the next sample of that channel's stream
SignalBlock(numChannels) ==
    [n \in 0..(BlockSize * numChannels - 1) |->
        produced[n \div BlockSize] + (n % BlockSize) + 1]

\* EnqueueBlock with enqueue (which allocates a new block when full) in place of
\* try_enqueue
RECURSIVE EnqueueBlock_allocating(_, _, _, _)
EnqueueBlock_allocating(queues, output, n, numChannels) ==
    IF n >= BlockSize * numChannels THEN queues
    ELSE LET ch == n \div BlockSize
         IN EnqueueBlock_allocating([queues EXCEPT ![ch] = Append(queues[ch], output[n])],
                                    output, n + 1, numChannels)

\* EnqueueBlock that makes room for the new sample by dequeuing the oldest one
RECURSIVE EnqueueBlock_dropOldest(_, _, _, _)
EnqueueBlock_dropOldest(queues, output, n, numChannels) ==
    IF n >= BlockSize * numChannels THEN queues
    ELSE LET ch == n \div BlockSize
             q == queues[ch]
             room == IF Len(q) < BufferSize THEN q ELSE Tail(q)
         IN EnqueueBlock_dropOldest([queues EXCEPT ![ch] = Append(room, output[n])],
                                    output, n + 1, numChannels)

\* EnqueueBlock that takes the block as interleaved frames: ch = n % numChannels
RECURSIVE EnqueueBlock_interleaved(_, _, _, _)
EnqueueBlock_interleaved(queues, output, n, numChannels) ==
    IF n >= BlockSize * numChannels THEN queues
    ELSE LET ch == n % numChannels
         IN EnqueueBlock_interleaved([queues EXCEPT ![ch] = try_enqueue(queues[ch], output[n])],
                                     output, n + 1, numChannels)

\* the loop of updateSignalData: for n in 0 .. DEFDACBLKSIZE*numChannels-1,
\* sampleQueue[n / DEFDACBLKSIZE].try_enqueue(output[n])
RECURSIVE EnqueueBlock(_, _, _, _)
EnqueueBlock(queues, output, n, numChannels) ==
    IF n >= BlockSize * numChannels THEN queues
    ELSE LET ch == n \div BlockSize
         IN EnqueueBlock([queues EXCEPT ![ch] = try_enqueue(queues[ch], output[n])],
                         output, n + 1, numChannels)

\* updateSignalData, called from the audio side; numChannels is what
\* activeConnection->getSignalData(output, 8) returns
updateSignalData(s, numChannels) ==
    IF getComponent(s) = NULL THEN s
    ELSE IF numChannels # 0
         THEN [s EXCEPT !.lastNumChannels = numChannels,
                        !.sampleQueue = EnqueueBlock(s.sampleQueue,
                                            SignalBlock(numChannels), 0, numChannels)]
         ELSE s

\* the inner loop of updateSignalGraph for one channel: dequeue into
\* lastSamples[ch][0], [1], ... until the queue is empty or 512 were taken
DrainCount(q) == Min(Len(q), BufferSize)
\* DrainSamples filling the array from its last index downwards
DrainSamples_reversed(q, samples) ==
    [i \in 0..(BufferSize - 1) |->
        IF i >= BufferSize - DrainCount(q) THEN q[BufferSize - i] ELSE samples[i]]
\* DrainSamples that zeroes the entries it has no sample for
DrainSamples_zeroRest(q, samples) ==
    [i \in 0..(BufferSize - 1) |-> IF i < DrainCount(q) THEN q[i + 1] ELSE 0]
DrainSamples(q, samples) ==
    [i \in 0..(BufferSize - 1) |-> IF i < DrainCount(q) THEN q[i + 1] ELSE samples[i]]
DrainQueue(q) == SubSeq(q, DrainCount(q) + 1, Len(q))

updateSignalGraph(s) ==
    IF getComponent(s) # NULL
    THEN [s EXCEPT
            !.lastSamples = [ch \in Channels |->
                IF ch < s.lastNumChannels
                THEN DrainSamples(s.sampleQueue[ch], s.lastSamples[ch])
                ELSE s.lastSamples[ch]],
            !.sampleQueue = [ch \in Channels |->
                IF ch < s.lastNumChannels
                THEN DrainQueue(s.sampleQueue[ch])
                ELSE s.sampleQueue[ch]]]
    ELSE s

\* clearSignalDisplayBuffer without the std::fill
clearSignalDisplayBuffer_noFill(s) ==
    [s EXCEPT !.sampleQueue = [ch \in Channels |-> <<>>]]

\* the lambda of setConnection: empty every queue, zero every display array
clearSignalDisplayBuffer(s) ==
    [s EXCEPT !.sampleQueue = [ch \in Channels |-> <<>>],
              !.lastSamples = [ch \in Channels |-> [i \in 0..(BufferSize - 1) |-> 0]]]

\* ---- the display state controller ---------------------------------------
\* hideDisplay without setVisible(false)
hideDisplay_staysVisible(s) ==
    LET s1 == IF getComponent(s) # NULL
              THEN [s EXCEPT !.connectionListener = "nullptr"]
              ELSE s
        s2 == stopTimer(s1, RepaintTimer)
    IN assign(s2, NULL)

hideDisplay(s) ==
    LET s1 == IF getComponent(s) # NULL
              THEN [s EXCEPT !.connectionListener = "nullptr"]
              ELSE s
        s2 == stopTimer(s1, RepaintTimer)
    IN assign([s2 EXCEPT !.visible = FALSE], NULL)

\* setConnection without the early return for null on null
setConnection_noEarlyReturn(s, connection) ==
    LET s1 == assign(s, connection)
    IN IF getComponent(s1) # NULL
       THEN LET s2 == [s1 EXCEPT !.isSignalDisplay = IsSignal(connection)]
                s3 == startTimer(s2, MouseHoverDelay, s2.mouseDelay)
                s4 == stopTimer(s3, MouseHoverExitDelay)
            IN IF s4.isSignalDisplay
               THEN LET s5 == clearSignalDisplayBuffer(s4)
                        s6 == [s5 EXCEPT !.connectionListener = "this"]
                        s7 == startTimer(s6, RepaintTimer, 1000 \div 10)
                    IN updateSignalGraph(s7)
               ELSE startTimer(s4, RepaintTimer, 1000 \div 60)
       ELSE LET s2 == hideDisplay(s1)
                s3 == [s2 EXCEPT !.mouseDelay = 0]
                s4 == stopTimer(s3, MouseHoverDelay)
            IN startTimer(s4, MouseHoverExitDelay, 500)

\* setConnection with the two repaint rates exchanged
setConnection_ratesSwapped(s, connection) ==
    IF getComponent(s) = NULL /\ connection = NULL THEN s
    ELSE
      LET s1 == assign(s, connection)
      IN IF getComponent(s1) # NULL
         THEN LET s2 == [s1 EXCEPT !.isSignalDisplay = IsSignal(connection)]
                  s3 == startTimer(s2, MouseHoverDelay, s2.mouseDelay)
                  s4 == stopTimer(s3, MouseHoverExitDelay)
              IN IF s4.isSignalDisplay
                 THEN LET s5 == clearSignalDisplayBuffer(s4)
                          s6 == [s5 EXCEPT !.connectionListener = "this"]
                          s7 == startTimer(s6, RepaintTimer, 1000 \div 60)
                      IN updateSignalGraph(s7)
                 ELSE startTimer(s4, RepaintTimer, 1000 \div 10)
         ELSE LET s2 == hideDisplay(s1)
                  s3 == [s2 EXCEPT !.mouseDelay = 0]
                  s4 == stopTimer(s3, MouseHoverDelay)
              IN startTimer(s4, MouseHoverExitDelay, 500)

\* setConnection that leaves the exit-delay timer running on adoption
setConnection_keepsExitDelay(s, connection) ==
    IF getComponent(s) = NULL /\ connection = NULL THEN s
    ELSE
      LET s1 == assign(s, connection)
      IN IF getComponent(s1) # NULL
         THEN LET s2 == [s1 EXCEPT !.isSignalDisplay = IsSignal(connection)]
                  s4 == startTimer(s2, MouseHoverDelay, s2.mouseDelay)
              IN IF s4.isSignalDisplay
                 THEN LET s5 == clearSignalDisplayBuffer(s4)
                          s6 == [s5 EXCEPT !.connectionListener = "this"]
                          s7 == startTimer(s6, RepaintTimer, 1000 \div 10)
                      IN updateSignalGraph(s7)
                 ELSE startTimer(s4, RepaintTimer, 1000 \div 60)
         ELSE LET s2 == hideDisplay(s1)
                  s3 == [s2 EXCEPT !.mouseDelay = 0]
                  s4 == stopTimer(s3, MouseHoverDelay)
              IN startTimer(s4, MouseHoverExitDelay, 500)

\* setConnection that shows the overlay itself when it adopts a connection
setConnection_showsAtOnce(s, connection) ==
    IF getComponent(s) = NULL /\ connection = NULL THEN s
    ELSE
      LET s1 == assign(s, connection)
      IN IF getComponent(s1) # NULL
         THEN LET s2 == [s1 EXCEPT !.isSignalDisplay = IsSignal(connection),
                                   !.visible = TRUE]
                  s3 == startTimer(s2, MouseHoverDelay, s2.mouseDelay)
                  s4 == stopTimer(s3, MouseHoverExitDelay)
              IN IF s4.isSignalDisplay
                 THEN LET s5 == clearSignalDisplayBuffer(s4)
                          s6 == [s5 EXCEPT !.connectionListener = "this"]
                          s7 == startTimer(s6, RepaintTimer, 1000 \div 10)
                      IN updateSignalGraph(s7)
                 ELSE startTimer(s4, RepaintTimer, 1000 \div 60)
         ELSE LET s2 == hideDisplay(s1)
                  s3 == [s2 EXCEPT !.mouseDelay = 0]
                  s4 == stopTimer(s3, MouseHoverDelay)
              IN startTimer(s4, MouseHoverExitDelay, 500)

\* setConnection(connection, screenPosition); the text layout and the width
\* that updateTextString computes for a message connection are modelled on
\* their own (UpdateTextString below)
setConnection(s, connection) ==
    IF getComponent(s) = NULL /\ connection = NULL THEN s
    ELSE
      LET s1 == assign(s, connection)
      IN IF getComponent(s1) # NULL
         THEN LET s2 == [s1 EXCEPT !.isSignalDisplay = IsSignal(connection)]
                  s3 == startTimer(s2, MouseHoverDelay, s2.mouseDelay)
                  s4 == stopTimer(s3, MouseHoverExitDelay)
              IN IF s4.isSignalDisplay
                 THEN LET s5 == clearSignalDisplayBuffer(s4)
                          s6 == [s5 EXCEPT !.connectionListener = "this"]
                          s7 == startTimer(s6, RepaintTimer, 1000 \div 10)
                      IN updateSignalGraph(s7)
                 ELSE startTimer(s4, RepaintTimer, 1000 \div 60)
         ELSE LET s2 == hideDisplay(s1)
                  s3 == [s2 EXCEPT !.mouseDelay = 0]
                  s4 == stopTimer(s3, MouseHoverDelay)
              IN startTimer(s4, MouseHoverExitDelay, 500)

\* timerCallback whose repaint case ignores a connection that has gone
timerCallback_repaintKeepsShowing(s, timerID) ==
    IF timerID = RepaintTimer
    THEN IF getComponent(s) # NULL /\ s.isSignalDisplay THEN updateSignalGraph(s) ELSE s
    ELSE IF timerID = MouseHoverDelay
    THEN IF getComponent(s) # NULL
         THEN [s EXCEPT !.visible = TRUE]
         ELSE hideDisplay(s)
    ELSE IF timerID = MouseHoverExitDelay
    THEN stopTimer([s EXCEPT !.mouseDelay = 500], MouseHoverExitDelay)
    ELSE s

timerCallback(s, timerID) ==
    IF timerID = RepaintTimer
    THEN IF getComponent(s) # NULL
         THEN IF s.isSignalDisplay THEN updateSignalGraph(s) ELSE s
         ELSE hideDisplay(s)
    ELSE IF timerID = MouseHoverDelay
    THEN IF getComponent(s) # NULL
         THEN [s EXCEPT !.visible = TRUE]
         ELSE hideDisplay(s)
    ELSE IF timerID = MouseHoverExitDelay
    THEN stopTimer([s EXCEPT !.mouseDelay = 500], MouseHoverExitDelay)
    ELSE s

\* ---- the text layout -------------------------------------------------------
\* A token of a message is identified with the pixel width of its text in the
\* default font; 0 is the empty string.  Widths are in pixels.
TokenWidths == {12, 30}
\* the messages getMessageFormated returns: up to MaxTokens non-empty tokens,
\* or no token at all for a connection that has carried no message yet
Messages == UNION {[1..n -> TokenWidths] : n \in 0..MaxTokens}
\* the widths of the editor the overlay lives in; each leaves half its width
\* for the padded "no message yet"
HostWidths == {120, 130, 160}
\* "no message yet", by its width
NoMessageYet == 28
CommaWidth == 3
\* what the semibold font adds to the width of a string
SemiboldExtra == 2
\* the "(n)..." marker in the semibold font, n of one digit
ElideWidth == 24
Max(S) == CHOOSE x \in S : \A y \in S : y <= x

\* Font::getStringWidth of a token, with the "," appended where the code does
getStringWidth(fontStyle, token, comma) ==
    token + (IF comma THEN CommaWidth ELSE 0)
          + (IF fontStyle = "Semibold" THEN SemiboldExtra ELSE 0)

\* TextStringWithMetrics(text, fontStyle, width); for the marker, text is the
\* number it shows
TextStringWithMetrics(kind, text, comma, fontStyle, itemWidth) ==
    [kind |-> kind, text |-> text, comma |-> comma, fontStyle |-> fontStyle,
     width |-> itemWidth]

\* LayoutLoop that compares the width laid out so far, without the token at
\* hand, with half the editor's width
RECURSIVE LayoutLoop_checksAfter(_, _, _, _, _, _)
LayoutLoop_checksAfter(textString, i, fontStyle, items, total, halfEditorWidth) ==
    IF i >= Len(textString) THEN [items |-> items, total |-> total]
    ELSE LET firstOrLast == (i = 0 \/ i = Len(textString) - 1)
             stringWidth == getStringWidth(fontStyle, textString[i + 1], ~firstOrLast)
         IN IF total > halfEditorWidth
            THEN [items |-> Append(items,
                      TextStringWithMetrics("elide", Len(textString) - i, FALSE,
                                            "Semibold", ElideWidth)),
                  total |-> total + ElideWidth + 4]
            ELSE LayoutLoop_checksAfter(textString, i + 1, "Regular",
                     Append(items, TextStringWithMetrics("token", textString[i + 1],
                                                         ~firstOrLast, fontStyle, stringWidth)),
                     total + stringWidth + 4, halfEditorWidth)

\* LayoutLoop whose marker counts the tokens laid out, not the omitted ones
RECURSIVE LayoutLoop_countsLaidOut(_, _, _, _, _, _)
LayoutLoop_countsLaidOut(textString, i, fontStyle, items, total, halfEditorWidth) ==
    IF i >= Len(textString) THEN [items |-> items, total |-> total]
    ELSE LET firstOrLast == (i = 0 \/ i = Len(textString) - 1)
             stringWidth == getStringWidth(fontStyle, textString[i + 1], ~firstOrLast)
         IN IF total + stringWidth > halfEditorWidth
            THEN [items |-> Append(items,
                      TextStringWithMetrics("elide", i, FALSE, "Semibold", ElideWidth)),
                  total |-> total + ElideWidth + 4]
            ELSE LayoutLoop_countsLaidOut(textString, i + 1, "Regular",
                     Append(items, TextStringWithMetrics("token", textString[i + 1],
                                                         ~firstOrLast, fontStyle, stringWidth)),
                     total + stringWidth + 4, halfEditorWidth)

\* the loop of updateTextString from index i on; items and total are
\* messageItemsWithFormat and totalStringWidth so far
RECURSIVE LayoutLoop(_, _, _, _, _, _)
LayoutLoop(textString, i, fontStyle, items, total, halfEditorWidth) ==
    IF i >= Len(textString) THEN [items |-> items, total |-> total]
    ELSE LET firstOrLast == (i = 0 \/ i = Len(textString) - 1)
             stringWidth == getStringWidth(fontStyle, textString[i + 1], ~firstOrLast)
         IN IF total + stringWidth > halfEditorWidth
            THEN [items |-> Append(items,
                      TextStringWithMetrics("elide", Len(textString) - i, FALSE,
                                            "Semibold", ElideWidth)),
                  total |-> total + ElideWidth + 4]
            ELSE LayoutLoop(textString, i + 1, "Regular",
                     Append(items, TextStringWithMetrics("token", textString[i + 1],
                                                         ~firstOrLast, fontStyle, stringWidth)),
                     total + stringWidth + 4, halfEditorWidth)

\* textString[0].isEmpty(): also true of an empty StringArray
haveMessage(message) == message # <<>> /\ message[1] # 0

\* the token sequence updateTextString lays out
EffectiveText(message) == IF haveMessage(message) THEN message ELSE <<NoMessageYet>>

\* updateTextString up to the bounds update: the items and the total width
LayoutText(message, hostWidth) ==
    LayoutLoop(EffectiveText(message), 0,
               IF haveMessage(message) THEN "Semibold" ELSE "Regular",
               <<>>, (8 * 2) + 4, hostWidth \div 2)

\* ---- the loops over the queues, one iteration at a time -------------------
\* neither thread is inside a call
AudioIdle == [pc |-> "idle", numChannels |-> 0, n |-> 0]
UiIdle == [pc |-> "idle", ch |-> 0, i |-> 0]

\* setConnection for a live connection, from the assignment of activeConnection
\* to stopTimer(MouseHoverExitDelay)
adoptConnection(s, connection) ==
    LET s1 == assign(s, connection)
        s2 == [s1 EXCEPT !.isSignalDisplay = IsSignal(connection)]
        s3 == startTimer(s2, MouseHoverDelay, s2.mouseDelay)
    IN stopTimer(s3, MouseHoverExitDelay)

\* updateSignalGraph is entered: if (activeConnection), the loops start at
\* ch = 0, i = 0
enterGraph(s) ==
    IF getComponent(s) # NULL THEN [pc |-> "graph", ch |-> 0, i |-> 0] ELSE UiIdle

\* one try_dequeue of clearSignalDisplayBuffer's
\*     while (sampleQueue[ch].try_dequeue(sample));
\* for channel u.ch.  A sample taken: the loop goes on.  None there: the loop
\* ends, lastSamples[ch] is filled with 0 and the next channel follows; after
\* the last channel setConnection registers the listener, starts the repaint
\* timer and enters updateSignalGraph.
clearStep(s, u) ==
    IF s.sampleQueue[u.ch] # <<>>
    THEN [s |-> [s EXCEPT !.sampleQueue[u.ch] = Tail(@)], u |-> u]
    ELSE LET s1 == [s EXCEPT !.lastSamples[u.ch] = [i \in 0..(BufferSize - 1) |-> 0]]
         IN IF u.ch + 1 < NumChannels
            THEN [s |-> s1, u |-> [u EXCEPT !.ch = @ + 1]]
            ELSE LET s2 == [s1 EXCEPT !.connectionListener = "this"]
                     s3 == startTimer(s2, RepaintTimer, 1000 \div 10)
                 IN [s |-> s3, u |-> enterGraph(s3)]

\* graphStep whose inner loop has no i < 512
graphStep_noLimit(s, u) ==
    IF u.ch >= s.lastNumChannels THEN [s |-> s, u |-> UiIdle]
    ELSE IF s.sampleQueue[u.ch] # <<>>
    THEN [s |-> [s EXCEPT !.lastSamples[u.ch][Min(u.i, BufferSize - 1)] =
                              Head(s.sampleQueue[u.ch]),
                          !.sampleQueue[u.ch] = Tail(@)],
          u |-> [u EXCEPT !.i = Min(@ + 1, BufferSize)]]
    ELSE [s |-> s, u |-> [u EXCEPT !.ch = @ + 1, !.i = 0]]

\* one iteration of updateSignalGraph's loops
\*     for (ch = 0; ch < lastNumChannels.load(); ch++)
\*         for (i = 0; i < 512; i++)
\*             if (try_dequeue) lastSamples[ch][i] = sample; else break;
graphStep(s, u) ==
    IF u.ch >= s.lastNumChannels THEN [s |-> s, u |-> UiIdle]
    ELSE IF u.i < BufferSize /\ s.sampleQueue[u.ch] # <<>>
    THEN [s |-> [s EXCEPT !.lastSamples[u.ch][u.i] = Head(s.sampleQueue[u.ch]),
                          !.sampleQueue[u.ch] = Tail(@)],
          u |-> [u EXCEPT !.i = @ + 1]]
    ELSE [s |-> s, u |-> [u EXCEPT !.ch = @ + 1, !.i = 0]]

\* the block of a silent signal: every sample is 0.0f.  What the samples are
\* makes no difference to the steps of the two threads.
SilentBlock(numChannels) == [n \in 0..(BlockSize * numChannels - 1) |-> 0]

\* one iteration of updateSignalData's loop: entry a.n of the block goes to
\* queue a.n / DEFDACBLKSIZE
enqueueStep(s, a) ==
    [s |-> [s EXCEPT !.sampleQueue[a.n \div BlockSize] =
                        try_enqueue(@, SilentBlock(a.numChannels)[a.n])],
     a |-> IF a.n + 1 < BlockSize * a.numChannels THEN [a EXCEPT !.n = @ + 1]
           ELSE AudioIdle]

\* ---- initial state: the object after its constructor ---------------------
\* isSignalDisplay and lastSamples have no initialiser: their first values
\* are whatever the memory held
Constructed ==
    /\ activeConnection = NULL
    /\ gone = FALSE
    /\ visible = FALSE
    /\ mouseDelay = 500
    /\ isSignalDisplay \in BOOLEAN
    /\ timerPeriodMs = [id \in TimerIDs |-> 0]
    /\ timerCountdown = [id \in TimerIDs |-> 0]
    /\ lastNumChannels = 1
    /\ sampleQueue = [ch \in Channels |-> <<>>]
    /\ \E v \in {0, Indeterminate} :
          lastSamples = [ch \in Channels |-> [i \in 0..(BufferSize - 1) |-> v]]
    /\ connectionListener = "nullptr"
    /\ produced = [ch \in Channels |-> 0]
    /\ clearedAt = [ch \in Channels |-> 0]
    /\ drains = 0
    /\ hiddenAge = Never
    /\ op = [name |-> "constructor", arg |-> NULL, ref |-> NULL, was |-> NULL,
             shown |-> FALSE]
    /\ messageItemsWithFormat = <<>>
    /\ totalStringWidth = 0
    /\ width = 36
    /\ audio = AudioIdle
    /\ ui = UiIdle
    /\ accessed = [thread \in {"audio", "ui"} |-> {}]

\* no connection has carried a message, the editor has its widest size
Init ==
    /\ Constructed
    /\ lastMessage = <<>>
    /\ parentWidth = Max(HostWidths)

\* ---- actions ------------------------------------------------------------
\* op records the call and what it found: the SafePointer's target (ref), what
\* getComponent returned (was) and whether the overlay was visible (shown)
Called(name, arg) ==
    op' = [name |-> name, arg |-> arg, ref |-> activeConnection,
           was |-> getComponent(cur), shown |-> visible]

\* the UI calls setConnection with a connection that exists, or with nullptr
SetConnection(connection) ==
    /\ connection \in Conns \cup {NULL}
    /\ Commit(setConnection(cur, connection))
    /\ Called("setConnection", connection)
    /\ hiddenAge' = IF connection = NULL /\ getComponent(cur) # NULL THEN 0 ELSE hiddenAge
    /\ clearedAt' = IF connection # NULL /\ IsSignal(connection) THEN produced ELSE clearedAt
    /\ drains' = IF connection # NULL /\ IsSignal(connection) THEN 0 ELSE drains
    /\ UNCHANGED produced
    /\ UNCHANGED <<textVars, threadVars>>

\* the audio callback hands a block to the registered connectionListener
UpdateSignalData(numChannels) ==
    /\ connectionListener = "this"
    /\ numChannels \in 0..NumChannels
    /\ \A ch \in Channels : ch < numChannels => produced[ch] < MaxBlocks * BlockSize
    /\ Commit(updateSignalData(cur, numChannels))
    /\ Called("updateSignalData", numChannels)
    /\ produced' = [ch \in Channels |->
                      IF getComponent(cur) # NULL /\ ch < numChannels
                      THEN produced[ch] + BlockSize ELSE produced[ch]]
    /\ UNCHANGED <<clearedAt, drains, hiddenAge>>
    /\ UNCHANGED <<textVars, threadVars>>

\* a running timer whose countdown has elapsed calls timerCallback; the
\* countdown is reloaded before the callback runs
TimerFires(timerID) ==
    /\ timerID \in TimerIDs
    /\ timerPeriodMs[timerID] > 0
    /\ timerCountdown[timerID] = 0
    /\ Commit(timerCallback(
          [cur EXCEPT !.timerCountdown[timerID] = Ticks(timerPeriodMs[timerID])],
          timerID))
    /\ Called("timerCallback", timerID)
    /\ hiddenAge' = IF timerID # MouseHoverExitDelay /\ getComponent(cur) = NULL
                    THEN 0 ELSE hiddenAge
    /\ drains' = IF timerID = RepaintTimer /\ getComponent(cur) # NULL /\ isSignalDisplay
                 THEN Min(drains + 1, 2) ELSE drains
    /\ UNCHANGED <<produced, clearedAt>>
    /\ UNCHANGED <<textVars, threadVars>>

\* the patch deletes the connection the overlay refers to; the SafePointer reads
\* null from now on
DeleteConnection ==
    /\ getComponent(cur) # NULL
    /\ Commit([cur EXCEPT !.gone = TRUE])
    /\ Called("deleteConnection", activeConnection)
    /\ UNCHANGED <<produced, clearedAt, drains, hiddenAge>>
    /\ UNCHANGED <<textVars, threadVars>>

\* 500 ms pass; not before every 500 ms timer that is due has fired
Tick ==
    /\ \A id \in TimerIDs :
          (timerPeriodMs[id] > 0 /\ Ticks(timerPeriodMs[id]) > 0) => timerCountdown[id] > 0
    /\ \/ \E id \in TimerIDs : timerCountdown[id] > 0
       \/ (hiddenAge # Never /\ hiddenAge < MaxAge)
    /\ timerCountdown' = [id \in TimerIDs |->
                            IF timerCountdown[id] > 0 THEN timerCountdown[id] - 1 ELSE 0]
    /\ hiddenAge' = IF hiddenAge = Never THEN Never ELSE Min(hiddenAge + 1, MaxAge)
    /\ Called("tick", NULL)
    /\ UNCHANGED <<activeConnection, gone, visible, mouseDelay, isSignalDisplay,
                   timerPeriodMs, lastNumChannels, sampleQueue, lastSamples,
                   connectionListener, produced, clearedAt, drains>>
    /\ UNCHANGED <<textVars, threadVars>>

Next ==
    \/ \E c \in Conns \cup {NULL} : SetConnection(c)
    \/ \E n \in 0..NumChannels : UpdateSignalData(n)
    \/ \E id \in TimerIDs : TimerFires(id)
    \/ DeleteConnection
    \/ Tick

Spec == Init /\ [][Next]_vars

\* the display state controller on its own: no audio block arrives
NextDisplay ==
    \/ \E c \in Conns \cup {NULL} : SetConnection(c)
    \/ \E id \in TimerIDs : TimerFires(id)
    \/ DeleteConnection
    \/ Tick

SpecDisplay == Init /\ [][NextDisplay]_vars

\* the controller on the message thread as time goes on: the clock advances,
\* and the message loop calls back every timer that is due; nothing obliges
\* the UI to call setConnection again or the patch to delete a connection
TimersDispatched == \E id \in TimerIDs : TimerFires(id)

SpecTimers ==
    /\ Init
    /\ [][NextDisplay]_vars
    /\ WF_vars(Tick)
    /\ WF_vars(TimersDispatched)

\* the sample relay within one 500 ms window: the clock does not advance
NextRelay ==
    \/ \E c \in Conns \cup {NULL} : SetConnection(c)
    \/ \E n \in 0..NumChannels : UpdateSignalData(n)
    \/ \E id \in TimerIDs : TimerFires(id)
    \/ DeleteConnection

SpecRelay == Init /\ [][NextRelay]_vars

\* ---- the text layout, applied to every message and editor width ----------
\* the patch sends a message through the hovered connection
SendMessage(message) ==
    /\ message \in Messages
    /\ message # lastMessage
    /\ lastMessage' = message
    /\ Called("sendMessage", NULL)
    /\ UNCHANGED <<progVars, produced, clearedAt, drains, hiddenAge>>
    /\ UNCHANGED <<parentWidth, messageItemsWithFormat, totalStringWidth, width>>
    /\ UNCHANGED threadVars

\* updateTextString(isHoverEntered): the layout, then the overlay grows to the
\* total width (updateBoundsFromProposed keeps it within the editor); it
\* shrinks only when the hover has just begun
UpdateTextString(isHoverEntered) ==
    /\ isHoverEntered \in BOOLEAN
    /\ LET layout == LayoutText(lastMessage, parentWidth)
       IN /\ messageItemsWithFormat' = layout.items
          /\ totalStringWidth' = layout.total
          /\ width' = IF layout.total > width \/ isHoverEntered
                      THEN Min(layout.total, parentWidth)
                      ELSE width
    /\ Called("updateTextString", IF isHoverEntered THEN 1 ELSE 0)
    /\ UNCHANGED <<progVars, produced, clearedAt, drains, hiddenAge>>
    /\ UNCHANGED <<lastMessage, parentWidth>>
    /\ UNCHANGED threadVars

InitText ==
    /\ Constructed
    /\ lastMessage \in Messages
    /\ parentWidth \in HostWidths

NextText ==
    \/ \E message \in Messages : SendMessage(message)
    \/ \E isHoverEntered \in BOOLEAN : UpdateTextString(isHoverEntered)

SpecText == InitText /\ [][NextText]_vars

\* ---- the UI thread and the audio thread, interleaved ----------------------
\* an access of a thread to fields of the overlay
Accesses(thread, fields) == accessed' = [accessed EXCEPT ![thread] = @ \cup fields]
\* the ghosts of the other parts stand still
Aside == UNCHANGED <<produced, clearedAt, drains, hiddenAge, op, textVars>>
\* a fault of the audio thread ends the process
Running == audio.pc # "fault"

\* the UI thread calls setConnection.  For a signal connection the call goes
\* on in the clearing loop; every other case has no loop and is one step
UiSetConnection(connection) ==
    /\ Running /\ ui.pc = "idle"
    /\ connection \in Conns \cup {NULL}
    /\ IF connection # NULL /\ IsSignal(connection)
       THEN /\ Commit(adoptConnection(cur, connection))
            /\ ui' = [pc |-> "clear", ch |-> 0, i |-> 0]
            /\ Accesses("ui", {"activeConnection", "isSignalDisplay", "mouseDelay", "timers"})
       ELSE /\ Commit(setConnection(cur, connection))
            /\ ui' = ui
            /\ Accesses("ui", IF getComponent(cur) = NULL /\ connection = NULL
                              THEN {"activeConnection"}
                              ELSE IF connection # NULL
                              THEN {"activeConnection", "isSignalDisplay", "mouseDelay",
                                    "timers", "messageItemsWithFormat"}
                              ELSE {"activeConnection", "mouseDelay", "timers", "visible"})
    /\ UNCHANGED audio
    /\ Aside

UiClearStep ==
    /\ Running /\ ui.pc = "clear"
    /\ Commit(clearStep(cur, ui).s)
    /\ ui' = clearStep(cur, ui).u
    /\ Accesses("ui", IF sampleQueue[ui.ch] # <<>> THEN {"sampleQueue"}
                      ELSE IF ui.ch + 1 < NumChannels THEN {"sampleQueue", "lastSamples"}
                      ELSE {"sampleQueue", "lastSamples", "activeConnection", "timers"})
    /\ UNCHANGED audio
    /\ Aside

UiGraphStep ==
    /\ Running /\ ui.pc = "graph"
    /\ Commit(graphStep(cur, ui).s)
    /\ ui' = graphStep(cur, ui).u
    /\ Accesses("ui", IF ui.ch >= lastNumChannels THEN {"lastNumChannels"}
                      ELSE {"lastNumChannels", "sampleQueue", "lastSamples"})
    /\ UNCHANGED audio
    /\ Aside

\* the repaint timer's callback: updateSignalGraph for a live signal
\* connection, nothing that is modelled for a live message connection,
\* hideDisplay for a connection that has gone
UiRepaintTimer ==
    /\ Running /\ ui.pc = "idle"
    /\ timerPeriodMs[RepaintTimer] > 0
    /\ IF getComponent(cur) # NULL /\ isSignalDisplay
       THEN /\ UNCHANGED progVars
            /\ ui' = enterGraph(cur)
            /\ Accesses("ui", {"activeConnection", "isSignalDisplay"})
       ELSE /\ Commit(timerCallback(cur, RepaintTimer))
            /\ ui' = ui
            /\ Accesses("ui", IF getComponent(cur) # NULL
                              THEN {"activeConnection", "isSignalDisplay",
                                    "messageItemsWithFormat"}
                              ELSE {"activeConnection", "timers", "visible"})
    /\ UNCHANGED audio
    /\ Aside

\* the patch deletes the hovered connection, between two calls on the UI thread
UiDeleteConnection ==
    /\ Running /\ ui.pc = "idle"
    /\ getComponent(cur) # NULL
    /\ Commit([cur EXCEPT !.gone = TRUE])
    /\ UNCHANGED <<audio, ui, accessed>>
    /\ Aside

\* the audio callback calls updateSignalData on the registered listener:
\* if (!activeConnection) return;
AudioBegin ==
    /\ Running /\ audio.pc = "idle"
    /\ connectionListener = "this"
    /\ audio' = IF getComponent(cur) # NULL
                THEN [pc |-> "getSignalData", numChannels |-> 0, n |-> 0]
                ELSE AudioIdle
    /\ Accesses("audio", {"activeConnection"})
    /\ UNCHANGED <<progVars, ui>>
    /\ Aside

\* activeConnection->getSignalData(output, 8) returns numChannels.  If the UI
\* thread has reset activeConnection, or the connection was deleted, since the
\* test before, the call goes through a null or dangling pointer: it faults or
\* returns anything
AudioGetSignalData(numChannels) ==
    /\ Running /\ audio.pc = "getSignalData"
    /\ numChannels \in 0..NumChannels
    /\ \/ audio' = IF numChannels = 0 THEN AudioIdle
                   ELSE [pc |-> "store", numChannels |-> numChannels, n |-> 0]
       \/ /\ getComponent(cur) = NULL
          /\ audio' = [pc |-> "fault", numChannels |-> 0, n |-> 0]
    /\ Accesses("audio", {"activeConnection"})
    /\ UNCHANGED <<progVars, ui>>
    /\ Aside

\* lastNumChannels = numChannels
AudioStore ==
    /\ Running /\ audio.pc = "store"
    /\ Commit([cur EXCEPT !.lastNumChannels = audio.numChannels])
    /\ audio' = [audio EXCEPT !.pc = "enqueue"]
    /\ Accesses("audio", {"lastNumChannels"})
    /\ UNCHANGED ui
    /\ Aside

AudioEnqueue ==
    /\ Running /\ audio.pc = "enqueue"
    /\ Commit(enqueueStep(cur, audio).s)
    /\ audio' = enqueueStep(cur, audio).a
    /\ Accesses("audio", {"sampleQueue"})
    /\ UNCHANGED ui
    /\ Aside

UiContinues == UiClearStep \/ UiGraphStep
AudioContinues ==
    \/ \E numChannels \in 0..NumChannels : AudioGetSignalData(numChannels)
    \/ AudioStore
    \/ AudioEnqueue

NextThreads ==
    \/ \E connection \in Conns \cup {NULL} : UiSetConnection(connection)
    \/ UiClearStep
    \/ UiGraphStep
    \/ UiRepaintTimer
    \/ UiDeleteConnection
    \/ AudioBegin
    \/ \E numChannels \in 0..NumChannels : AudioGetSignalData(numChannels)
    \/ AudioStore
    \/ AudioEnqueue

\* each thread, once inside a call, goes on with it: the call is not abandoned
\* by the scheduler
SpecThreads ==
    /\ Init
    /\ [][NextThreads]_vars
    /\ WF_vars(UiContinues)
    /\ WF_vars(AudioContinues)

TypeOK ==
    /\ gone \in BOOLEAN
    /\ activeConnection \in Conns \cup {NULL}
    /\ visible \in BOOLEAN
    /\ mouseDelay \in {0, 500}
    /\ \A ch \in Channels : Len(sampleQueue[ch]) <= BufferSize

\* ---- properties ----------------------------------------------------------
QueuesEmpty == \A ch \in Channels : sampleQueue[ch] = <<>>
DisplayZero == \A ch \in Channels : \A i \in 0..(BufferSize - 1) : lastSamples[ch][i] = 0
Last(q) == q[Len(q)]
IsPrefix(p, q) == Len(p) <= Len(q) /\ SubSeq(q, 1, Len(p)) = p

Adopted == op.name = "setConnection" /\ op.arg # NULL
Cleared == op.name = "setConnection" /\ op.arg = NULL /\ op.was # NULL
TimerFoundGone ==
    /\ op.name = "timerCallback"
    /\ op.arg \in {RepaintTimer, MouseHoverDelay}
    /\ op.was = NULL
Drained ==
    /\ op.name = "timerCallback"
    /\ op.arg = RepaintTimer
    /\ op.was # NULL
    /\ isSignalDisplay
\* what hideDisplay leaves behind
AsHideDisplayLeavesIt ==
    /\ ~visible
    /\ activeConnection = NULL
    /\ timerPeriodMs[RepaintTimer] = 0

\* C1 as stated: whenever the handle reads null, be it reset or invalidated by
\* the deletion of the connection, the overlay is not visible.
C1_NullHandleNeverVisible == getComponent(cur) = NULL => ~visible

\* C1 amended: whenever the SafePointer has been reset to null (by hideDisplay,
\* or never set), the overlay is not visible; a handle that reads null only
\* because its connection was deleted may belong to a visible overlay.
C1_ResetHandleNeverVisible == activeConnection = NULL => ~visible

C1_Witness == Cleared /\ op.shown /\ activeConnection = NULL /\ ~visible

\* C2: when the handle becomes null, the overlay is hidden by hideDisplay at
\* once (setConnection(nullptr) on a live handle) or by the first repaint or
\* hover-delay callback that runs afterwards, and both of these timers are
\* still running while a deleted connection's overlay is visible.
C2_HiddenWithinOneTimerFiring ==
    /\ Cleared => AsHideDisplayLeavesIt
    /\ TimerFoundGone => AsHideDisplayLeavesIt
    /\ (getComponent(cur) = NULL /\ visible) =>
          (timerPeriodMs[RepaintTimer] > 0 /\ timerPeriodMs[MouseHoverDelay] > 0)

C2_Witness == TimerFoundGone /\ op.ref # NULL /\ op.shown /\ ~visible

\* C3: setConnection(nullptr) on a null handle changes no field of the overlay
\* and restarts no timer.
C3_NullOnNullIsNoOp ==
    [][(op'.name = "setConnection" /\ op'.arg = NULL /\ op'.was = NULL)
          => UNCHANGED progVars]_vars

C3_Witness ==
    /\ op.name = "setConnection" /\ op.arg = NULL /\ op.was = NULL
    /\ timerPeriodMs[MouseHoverExitDelay] = 500
    /\ timerPeriodMs[MouseHoverDelay] = 0
    /\ mouseDelay = 0
    /\ \E ch \in Channels : sampleQueue[ch] # <<>>

\* C4 as stated: after a setConnection that changes the active connection, to
\* another connection of either kind or to null, every queue is empty and every
\* display entry is 0.
C4_AnyChangeClearsBuffers ==
    (op.name = "setConnection" /\ op.arg # op.was) => (QueuesEmpty /\ DisplayZero)

\* C4 amended: after a setConnection that adopts a live signal connection,
\* every queue is empty and every display entry is 0.
C4_SignalAdoptionClearsBuffers ==
    (Adopted /\ IsSignal(op.arg)) => (QueuesEmpty /\ DisplayZero)

C4_Witness ==
    /\ Adopted /\ IsSignal(op.arg)
    /\ \E ch \in Channels : clearedAt[ch] > 0
    /\ QueuesEmpty /\ DisplayZero

\* C5: after setConnection adopts a signal connection the repaint timer runs
\* with a period of 100 ms, after it adopts a message connection with the
\* period 1000/60 = 16 ms.
C5_RepaintRate ==
    Adopted => timerPeriodMs[RepaintTimer] = (IF IsSignal(op.arg) THEN 100 ELSE 16)

C5_Witness ==
    /\ Adopted /\ ~IsSignal(op.arg)
    /\ op.was # NULL /\ IsSignal(op.was)
    /\ timerPeriodMs[RepaintTimer] = 16

\* C6: no channel's queue ever holds more samples than its capacity.
C6_QueueWithinCapacity == \A ch \in Channels : Len(sampleQueue[ch]) <= BufferSize

C6_Witness ==
    \E ch \in Channels :
        /\ Len(sampleQueue[ch]) = BufferSize
        /\ Last(sampleQueue[ch]) < produced[ch]

PushedSinceClear(ch) == produced[ch] - clearedAt[ch]

\* C8: buffers cleared by the adoption of a signal connection, then N <= 512
\* samples pushed per channel, then one drain: every channel below the reported
\* channel count shows exactly its N samples in push order, followed by zeros.
C8_RoundTrip ==
    (Drained /\ drains = 1) =>
        \A ch \in Channels :
            (ch < lastNumChannels /\ PushedSinceClear(ch) <= BufferSize) =>
                \A i \in 0..(BufferSize - 1) :
                    lastSamples[ch][i] =
                        (IF i < PushedSinceClear(ch) THEN clearedAt[ch] + i + 1 ELSE 0)

C8_Witness ==
    /\ Drained /\ drains = 1
    /\ lastNumChannels = NumChannels
    /\ \A ch \in Channels :
          /\ PushedSinceClear(ch) = BlockSize
          /\ clearedAt[ch] > 0
          /\ lastSamples[ch][0] = clearedAt[ch] + 1

\* C9 as stated: each display array is a rolling window in arrival order: of
\* two samples in it, the one at the lower index arrived first.
C9_DisplayInArrivalOrder ==
    \A ch \in Channels : \A i, j \in 0..(BufferSize - 1) :
        (i < j /\ lastSamples[ch][i] > 0 /\ lastSamples[ch][j] > 0) =>
            lastSamples[ch][i] < lastSamples[ch][j]

\* C9 amended: a repaint-tick drain writes the k samples it dequeues from a
\* channel to entries 0..k-1 of that channel's array, in arrival order, and
\* leaves the entries from k on, and the channels at or above the channel
\* count, as they were.
C9_DrainOverwritesFromIndexZero ==
    [][(op'.name = "timerCallback" /\ op'.arg = RepaintTimer /\ op'.was # NULL
            /\ isSignalDisplay) =>
          \A ch \in Channels :
              LET k == IF ch < lastNumChannels
                       THEN Len(sampleQueue[ch]) - Len(sampleQueue'[ch]) ELSE 0
              IN /\ k >= 0
                 /\ sampleQueue[ch] =
                        [i \in 1..k |-> lastSamples'[ch][i - 1]] \o sampleQueue'[ch]
                 /\ \A i \in k..(BufferSize - 1) :
                        lastSamples'[ch][i] = lastSamples[ch][i]]_vars

C9_Witness ==
    /\ Drained
    /\ \E ch \in Channels : \E i, j \in 0..(BufferSize - 1) :
          /\ i < j
          /\ lastSamples[ch][j] > 0
          /\ lastSamples[ch][i] > lastSamples[ch][j]

\* C10: a hover that starts on a hidden overlay is armed with 0 ms (a timer
\* period of 1 ms) only if hideDisplay ran at most 500 ms (one clock tick)
\* before; the first hover and a hover later than that get the 500 ms delay,
\* whichever way the overlay was hidden.
C10_ZeroDelayOnlyInsideGrace ==
    (Adopted /\ op.ref = NULL /\ timerPeriodMs[MouseHoverDelay] = 1) =>
        (hiddenAge # Never /\ hiddenAge <= 1)

\* C11: the zero hover delay follows a successful interaction only: when a
\* connection is cleared before the overlay was ever shown for it, the hover
\* that starts next is still armed with the 500 ms delay.
C11_ZeroDelayOnlyAfterShown ==
    [][(Cleared /\ ~op.shown /\ op'.name = "setConnection" /\ op'.arg # NULL)
          => timerPeriodMs'[MouseHoverDelay] = 500]_vars

\* C12: every hide, by setConnection(nullptr) or by a repaint or hover-delay
\* callback that finds the connection gone, leaves the repaint timer stopped,
\* the handle null, the overlay invisible and the exit-delay timer armed with
\* 500 ms.
C12_EveryHideArmsExitDelay ==
    (Cleared \/ TimerFoundGone) =>
        /\ AsHideDisplayLeavesIt
        /\ timerPeriodMs[MouseHoverExitDelay] = 500
        /\ timerCountdown[MouseHoverExitDelay] = Ticks(500)

\* C13: when setConnection returns after adopting a live connection, the
\* exit-delay timer is not running, the hover-delay timer has been restarted
\* with the current mouseDelay and its full period ahead, and the repaint timer
\* runs at the interval of the new connection's kind; when it returns after
\* clearing, the repaint and the hover-delay timer are both stopped.
C13_TimersFollowTheSwitch ==
    /\ Adopted =>
          /\ timerPeriodMs[MouseHoverExitDelay] = 0
          /\ timerPeriodMs[MouseHoverDelay] = jmax(1, mouseDelay)
          /\ timerCountdown[MouseHoverDelay] = Ticks(jmax(1, mouseDelay))
          /\ timerPeriodMs[RepaintTimer] = (IF IsSignal(op.arg) THEN 100 ELSE 16)
          /\ timerCountdown[RepaintTimer] = 0
    /\ Cleared =>
          /\ timerPeriodMs[RepaintTimer] = 0
          /\ timerPeriodMs[MouseHoverDelay] = 0

\* a switch between the two kinds while the previous connection was displayed
C13_Witness ==
    /\ Adopted /\ op.was # NULL /\ op.shown
    /\ IsSignal(op.was) # IsSignal(op.arg)
    /\ mouseDelay = 500
    /\ timerCountdown[MouseHoverDelay] = 1
    /\ timerPeriodMs[MouseHoverExitDelay] = 0

\* C16 as stated: after setConnection adopts a connection other than the one
\* held before, the overlay is not visible until the hover-delay timer armed
\* by that call fires, also when the previous connection was displayed.
C16_AdoptionStartsInvisible == (Adopted /\ op.arg # op.ref) => ~visible

\* C16 amended: an adoption leaves the visibility as it was, and an invisible
\* overlay becomes visible only in a hover-delay callback that finds the
\* connection alive.  So an adoption made while the overlay is hidden waits for
\* the hover-delay timer, and one made while the overlay is visible shows the
\* new connection at once.
C16_OnlyHoverDelayShows ==
    [][/\ (op'.name = "setConnection" /\ op'.arg # NULL) => visible' = visible
       /\ (~visible /\ visible') =>
             /\ op'.name = "timerCallback"
             /\ op'.arg = MouseHoverDelay
             /\ op'.was # NULL]_vars

\* a switch from a displayed connection to another one
C16_Witness ==
    /\ Adopted /\ op.arg # op.ref
    /\ op.was # NULL /\ op.shown
    /\ visible
    /\ timerCountdown[MouseHoverDelay] = 1

\* C20: pd->connectionListener is the overlay exactly while the overlay holds a
\* signal connection: it is set when a signal connection is adopted, and in
\* every state whose handle has been reset to null or refers to a message
\* connection it is null again.
C20_ListenerOnlyWhileSignal ==
    /\ (Adopted /\ IsSignal(op.arg)) => connectionListener = "this"
    /\ (activeConnection = NULL \/ ~IsSignal(activeConnection)) =>
          connectionListener = "nullptr"

IsSuffix(p, q) == Len(p) <= Len(q) /\ SubSeq(q, Len(q) - Len(p) + 1, Len(q)) = p

\* the part of a block that belongs to channel ch: entries ch*DEFDACBLKSIZE ..
\* ch*DEFDACBLKSIZE + DEFDACBLKSIZE - 1, in block order
ChannelSlice(output, ch) == [j \in 1..BlockSize |-> output[ch * BlockSize + j - 1]]

\* C18: a queue grows only in updateSignalData and shrinks only in UI code
\* (setConnection's clearing loop, the repaint callback's drain).  A block of
\* numChannels channels appends to queue ch < numChannels the entries
\* ch*DEFDACBLKSIZE .. of the block, in block order, as far as they fit, and
\* nothing to the other queues; with no live connection or 0 channels
\* reported nothing is appended anywhere.
C18_PerChannelRouting ==
    [][/\ op'.name = "updateSignalData" =>
             \A ch \in Channels :
                 sampleQueue'[ch] =
                     IF op'.was # NULL /\ ch < op'.arg
                     THEN sampleQueue[ch] \o
                          SubSeq(ChannelSlice(SignalBlock(op'.arg), ch), 1,
                                 Min(BlockSize, BufferSize - Len(sampleQueue[ch])))
                     ELSE sampleQueue[ch]
       /\ op'.name # "updateSignalData" =>
             /\ \A ch \in Channels : IsSuffix(sampleQueue'[ch], sampleQueue[ch])
             /\ sampleQueue' # sampleQueue =>
                   op'.name \in {"setConnection", "timerCallback"}]_vars

\* a block of all channels has been pushed onto queues that hold different
\* parts of their streams
C18_Witness ==
    /\ op.name = "updateSignalData" /\ op.was # NULL /\ op.arg = NumChannels
    /\ \A ch \in Channels :
          /\ Len(sampleQueue[ch]) >= BlockSize
          /\ Last(sampleQueue[ch]) = produced[ch]
    /\ \E a, b \in Channels : produced[a] # produced[b]

\* ---- properties of the text layout ----------------------------------------
\* the state right after updateTextString returned
LaidOut == op.name = "updateTextString"
halfEditorWidth == parentWidth \div 2
\* the width updateTextString measures for token i (from 0) of textString
StringWidthAt(textString, i) ==
    getStringWidth(IF i = 0 /\ textString # <<NoMessageYet>> THEN "Semibold" ELSE "Regular",
                   textString[i + 1],
                   ~(i = 0 \/ i = Len(textString) - 1))
\* the padding, then tokens 0 .. i-1 each followed by its 4 px gap
RECURSIVE RunningWidth(_, _)
RunningWidth(textString, i) ==
    IF i = 0 THEN 20
    ELSE RunningWidth(textString, i - 1) + StringWidthAt(textString, i - 1) + 4
Elided == messageItemsWithFormat # <<>> /\ Last(messageItemsWithFormat).kind = "elide"

\* C15 as stated: when the padding, the token widths and their gaps add up to
\* more than half the editor's width, the layout ends with the marker and its
\* total width, marker included, is at most half the editor's width.
C15_ElidedFitsHalfHost ==
    (LaidOut /\ RunningWidth(EffectiveText(lastMessage), Len(EffectiveText(lastMessage)))
                    > halfEditorWidth) =>
        (Elided /\ totalStringWidth <= halfEditorWidth)

\* C15 amended: when the right edge of some token (padding, widths and the
\* gaps between tokens, without the gap after the last one) lies beyond half
\* the editor's width, the layout ends with the marker; the tokens before the
\* marker end within half the editor's width, and the marker with its two gaps
\* comes on top of that, unchecked.
C15_ElidedTokensFitHalfHost ==
    (LaidOut /\ RunningWidth(EffectiveText(lastMessage), Len(EffectiveText(lastMessage))) - 4
                    > halfEditorWidth) =>
        /\ Elided
        /\ totalStringWidth - (ElideWidth + 4) - 4 <= halfEditorWidth
        /\ totalStringWidth <= halfEditorWidth + ElideWidth + 8

\* an elided layout of several items that is wider than half the editor
C15_Witness ==
    /\ LaidOut /\ Elided
    /\ Len(messageItemsWithFormat) >= 3
    /\ totalStringWidth > halfEditorWidth

\* the first index whose token does not fit: the width laid out before it plus
\* its own width exceeds half the editor's width; the size if every token fits
CrossIndex(textString) ==
    LET crossing == {i \in 0..(Len(textString) - 1) :
                        RunningWidth(textString, i) + StringWidthAt(textString, i)
                            > halfEditorWidth}
    IN IF crossing = {} THEN Len(textString)
       ELSE CHOOSE i \in crossing : \A j \in crossing : i <= j

Faulted == audio.pc = "fault"

\* C14: the sample queues are the only field that both the audio thread (in
\* updateSignalData) and the UI thread access; activeConnection, the timers
\* and the layout are touched by the UI thread alone.
C14_OnlyQueuesShared == (accessed["audio"] \cap accessed["ui"]) \subseteq {"sampleQueue"}

\* C19 as stated: a call of updateSignalData, of updateSignalGraph and of
\* setConnection comes to its end whatever the other thread does; the clearing
\* loop of setConnection ends also while the audio thread goes on enqueuing.
C19_EveryCallCompletes ==
    /\ (audio.pc # "idle") ~> (audio.pc = "idle" \/ Faulted)
    /\ (ui.pc # "idle") ~> (ui.pc = "idle" \/ Faulted)

\* the steps a call of updateSignalData has left at most
AudioRemaining(a) ==
    IF a.pc = "getSignalData" THEN 2 + BlockSize * NumChannels
    ELSE IF a.pc = "store" THEN 1 + BlockSize * a.numChannels
    ELSE IF a.pc = "enqueue" THEN BlockSize * a.numChannels - a.n
    ELSE 0
\* the steps a call of updateSignalGraph has left at most
GraphRemaining(u) ==
    IF u.pc = "graph"
    THEN (NumChannels - u.ch) * (BufferSize + 2) + (BufferSize + 1 - u.i)
    ELSE 0
RECURSIVE QueuedFrom(_, _)
QueuedFrom(queues, ch) ==
    IF ch >= NumChannels THEN 0 ELSE Len(queues[ch]) + 1 + QueuedFrom(queues, ch + 1)
\* the steps the clearing loop has left if nothing more is enqueued: one per
\* sample in the queues it has not emptied yet, one per queue to see it empty
ClearRemaining(u, queues) == IF u.pc = "clear" THEN QueuedFrom(queues, u.ch) ELSE 0

\* C19 amended: every step of a call of updateSignalData and every step of a
\* call of updateSignalGraph lowers a count that starts below a fixed bound
\* (2 + DEFDACBLKSIZE * 8, and 8 * (512 + 2)) and that no step of the other
\* thread changes, so both calls end within that many steps of their own.
\* Every step of setConnection's clearing loop lowers the number of samples
\* still queued (plus one per queue), but every sample the audio thread
\* enqueues meanwhile raises it again: the loop ends within the samples queued
\* at its start plus those enqueued while it runs, not within a fixed bound.
\* (A step that changes audio is the audio thread's; while a UI loop runs,
\* every other step is a step of that loop.)
C19_BoundedLoopsComplete ==
    [][/\ AudioRemaining(audio) > 0 =>
             IF audio' # audio
             THEN AudioRemaining(audio') < AudioRemaining(audio)
             ELSE AudioRemaining(audio') = AudioRemaining(audio)
       /\ GraphRemaining(ui) > 0 =>
             IF audio' = audio
             THEN GraphRemaining(ui') < GraphRemaining(ui)
             ELSE GraphRemaining(ui') = GraphRemaining(ui)
       /\ ui.pc = "clear" =>
             IF audio' = audio
             THEN ui'.pc = "clear" =>
                     ClearRemaining(ui', sampleQueue') = ClearRemaining(ui, sampleQueue) - 1
             ELSE /\ ui' = ui
                  /\ ClearRemaining(ui', sampleQueue') \in
                        {ClearRemaining(ui, sampleQueue),
                         ClearRemaining(ui, sampleQueue) + 1}]_vars

\* updateSignalGraph is at the capacity limit of its inner loop while the
\* audio thread is enqueuing to the same queue, which is not empty
C19_Witness ==
    /\ ui.pc = "graph" /\ ui.i = BufferSize
    /\ audio.pc = "enqueue" /\ audio.n \div BlockSize = ui.ch
    /\ sampleQueue[ui.ch] # <<>>

\* ---- the timers after a hide ----------------------------------------------
NoTimerRunning == \A id \in TimerIDs : timerPeriodMs[id] = 0

\* C21: once the overlay has been hidden, by setConnection(nullptr) on a live
\* handle or by a repaint or hover-delay callback that found the connection
\* deleted, then eventually none of the three timers is running, unless a
\* connection is set again before that.
C21_TimersQuiesceAfterHide ==
    (Cleared \/ (TimerFoundGone /\ op.ref # NULL))
        ~> (NoTimerRunning \/ activeConnection # NULL)

\* the same for the hide by setConnection(nullptr) alone
ClearedTimersQuiesce == Cleared ~> (NoTimerRunning \/ activeConnection # NULL)

\* a hide by a timer callback leaves the hover-delay timer running
TimerHideKeepsHoverDelay ==
    (TimerFoundGone /\ op.ref # NULL) => timerPeriodMs[MouseHoverDelay] > 0
====
